---- MODULE Spec2Model ----
(***************************************************************************)
(* Model of the EasyBuild GitLab CI hooks (gitlab_ci_hook.py: flat policy, *)
(* gitlab_hook.py: leveled policy) and of the stand-alone merger           *)
(* inject_defaults.py.                                                     *)
(*                                                                         *)
(* Text is modelled as a sequence of one-character strings, so that the    *)
(* replace / strip / prefix operations of the code are computed and not    *)
(* assumed.  A Python dict is modelled with its insertion order:           *)
(* [keys |-> <<k1, k2, ...>>, val |-> [k \in {k1, k2, ...} |-> value]].    *)
(***************************************************************************)
EXTENDS Integers, Sequences, FiniteSets, TLC

(* ------------------------------------------------------------------ *)
(* Bounds of the model                                                *)
(* ------------------------------------------------------------------ *)

\* longest input sequence handed to _process_easyconfigs_for_jobs
MaxSpecs == 3
\* longest all_dependencies list of one easyconfig
MaxDeps == 2

(* ------------------------------------------------------------------ *)
(* Sequences and text                                                 *)
(* ------------------------------------------------------------------ *)

Range(s) == {s[i] : i \in 1..Len(s)}

SeqsUpTo(S, n) == UNION {[1..k -> S] : k \in 0..n}

\* s[from..] with nothing when from is past the end
Drop(s, n) == IF n >= Len(s) THEN <<>> ELSE SubSeq(s, n + 1, Len(s))

StartsWith(s, p) == Len(s) >= Len(p) /\ SubSeq(s, 1, Len(p)) = p

\* Python str.replace(old, new) for a non-empty old: leftmost, non-overlapping
RECURSIVE Replace(_, _, _)
Replace(s, old, new) ==
    IF s = <<>> THEN <<>>
    ELSE IF StartsWith(s, old) THEN new \o Replace(Drop(s, Len(old)), old, new)
    ELSE <<Head(s)>> \o Replace(Tail(s), old, new)

\* str.isalpha() on one character, for the ASCII letters
IsAlpha(c) ==
    c \in {"a","b","c","d","e","f","g","h","i","j","k","l","m","n","o","p","q",
           "r","s","t","u","v","w","x","y","z",
           "A","B","C","D","E","F","G","H","I","J","K","L","M","N","O","P","Q",
           "R","S","T","U","V","W","X","Y","Z"}

\* variant: '+' is left as it is
_sanitize_job_name_keeps_plus(name) ==
    LET s1 == Replace(name, <<"/">>, <<"-">>)
        s2 == Replace(s1, <<":">>, <<"-">>)
        s4 == Replace(s2, <<"(">>, <<>>)
        s5 == Replace(s4, <<")">>, <<>>)
        s6 == Replace(s5, <<" ">>, <<"-">>)
        sanitized == IF s6 # <<>> /\ ~(IsAlpha(s6[1]) \/ s6[1] = "_")
                     THEN <<"j","o","b","-">> \o s6
                     ELSE s6
    IN  IF sanitized # <<>> THEN sanitized
        ELSE <<"u","n","k","n","o","w","n","-","j","o","b">>

\* variant: no 'job-' in front of a name that starts with another character
_sanitize_job_name_no_prefix(name) ==
    LET s1 == Replace(name, <<"/">>, <<"-">>)
        s2 == Replace(s1, <<":">>, <<"-">>)
        s3 == Replace(s2, <<"+">>, <<"p","l","u","s">>)
        s4 == Replace(s3, <<"(">>, <<>>)
        s5 == Replace(s4, <<")">>, <<>>)
        s6 == Replace(s5, <<" ">>, <<"-">>)
    IN  IF s6 # <<>> THEN s6
        ELSE <<"u","n","k","n","o","w","n","-","j","o","b">>

\* _sanitize_job_name, the same text in both hook modules
_sanitize_job_name(name) ==
    LET s1 == Replace(name, <<"/">>, <<"-">>)
        s2 == Replace(s1, <<":">>, <<"-">>)
        s3 == Replace(s2, <<"+">>, <<"p","l","u","s">>)
        s4 == Replace(s3, <<"(">>, <<>>)
        s5 == Replace(s4, <<")">>, <<>>)
        s6 == Replace(s5, <<" ">>, <<"-">>)
        sanitized == IF s6 # <<>> /\ ~(IsAlpha(s6[1]) \/ s6[1] = "_")
                     THEN <<"j","o","b","-">> \o s6
                     ELSE s6
    IN  IF sanitized # <<>> THEN sanitized
        ELSE <<"u","n","k","n","o","w","n","-","j","o","b">>

(* ------------------------------------------------------------------ *)
(* Python dict with insertion order                                   *)
(* ------------------------------------------------------------------ *)

EmptyDict == [keys |-> <<>>, val |-> <<>>]

Has(d, k) == k \in DOMAIN d.val

Get(d, k) == d.val[k]

\* d[k] = v: a new key goes to the end, an existing key keeps its place
Put(d, k, v) ==
    [keys |-> IF Has(d, k) THEN d.keys ELSE Append(d.keys, k),
     val  |-> [x \in (DOMAIN d.val) \cup {k} |-> IF x = k THEN v ELSE d.val[x]]]

(* ------------------------------------------------------------------ *)
(* Inputs: easyconfigs and their dependencies                         *)
(* ------------------------------------------------------------------ *)

\* The packages of the model.  PkgA and PkgB are different packages whose
\* module names differ only in where the "/" stands; PkgC is unrelated.
PkgA == [name |-> <<"a">>, version |-> <<"1","-","b">>]
PkgB == [name |-> <<"a","-","1">>, version |-> <<"b">>]
PkgC == [name |-> <<"c">>, version |-> <<"2">>]

Pkgs == {PkgA, PkgB, PkgC}

\* the packages other easyconfigs may depend on
DepPkgs == {PkgA, PkgC}

\* A dependency (an entry of ec.all_dependencies).  resolvable = FALSE stands
\* for an entry on which ActiveMNS().det_full_module_name raises.
Deps ==
    {[name |-> p.name, version |-> p.version, external_module |-> FALSE, resolvable |-> TRUE]
        : p \in DepPkgs}
    \cup {[name |-> PkgA.name, version |-> PkgA.version, external_module |-> TRUE, resolvable |-> TRUE],
          [name |-> PkgC.name, version |-> PkgC.version, external_module |-> FALSE, resolvable |-> FALSE]}

\* the all_dependencies lists: no entry twice in one list
DepLists ==
    {ds \in SeqsUpTo(Deps, MaxDeps) : \A i, j \in 1..Len(ds) : ds[i] = ds[j] => i = j}

\* An easyconfig object.  resolvable = FALSE: its own module name cannot be
\* determined.
Easyconfigs ==
    {[name |-> p.name, version |-> p.version, resolvable |-> TRUE, all_dependencies |-> ds]
        : p \in Pkgs, ds \in DepLists}
    \cup {[name |-> PkgB.name, version |-> PkgB.version, resolvable |-> FALSE,
           all_dependencies |-> <<>>]}

\* MockMNS.det_full_module_name: the one naming scheme the repository defines
det_full_module_name(ec) == ec.name \o <<"/">> \o ec.version

ModA == det_full_module_name(PkgA)
ModB == det_full_module_name(PkgB)
ModC == det_full_module_name(PkgC)

\* f"{ec.name}-{ec.version}.eb"
easyconfig_name(ec) == ec.name \o <<"-">> \o ec.version \o <<".","e","b">>

\* _sanitize_job_name is pure: its value on each text the generators hand it,
\* computed once
SanitizedNames ==
    [n \in {det_full_module_name(p) : p \in Pkgs}
           \cup {Replace(easyconfig_name(p), <<".","e","b">>, <<>>) : p \in Pkgs}
        |-> _sanitize_job_name(n)]

Sanitized(n) == SanitizedNames[n]

(* ------------------------------------------------------------------ *)
(* State                                                              *)
(* ------------------------------------------------------------------ *)

VARIABLES
    pc,                \* where the run stands
    easyconfigs,       \* the easyconfigs the loop has taken so far, in order
    PIPELINE_JOBS,     \* module name -> job_info (module global)
    JOB_DEPENDENCIES,  \* module name -> job_deps (module global)
    module_to_job,     \* module name -> job_info (local of the builder)
    environ,           \* os.environ: the variables that are set
    policy,            \* which generator wrote the manifest: "flat", "leveled" or "none"
    pipeline,          \* the manifest (a dict), EmptyDict while there is none
    config,            \* the external defaults document the last merge read
    before,            \* the manifest the last merge started from
    last,              \* the last merge: which merger, and whether it returned
    exit_status,       \* how pre_build_and_install_loop_hook was left, "running" before
    sanitize_arg,      \* the argument of a call of _sanitize_job_name
    sanitize_ret,      \* what that call returned, <<>> before it returns
    stages_by_job,     \* _calculate_job_stages: its dict stages, module name -> level
    visited,           \* _calculate_job_stages: the set visited
    frames,            \* the active calls of get_stage, innermost last
    next_job,          \* position of the outer loop of _calculate_job_stages
    hook_module,       \* the hooks module that is loaded
    READY_ECS,         \* what post_ready_hook collected (module global)
    PARSED_ECS,        \* what parse_hook collected (module global)
    hook_call,         \* the last call of a hook: which, its argument, how it ended
    ready_at_start,    \* Len(READY_ECS) when start_hook last began a run
    argv,              \* sys.argv
    easyconfig_path,   \* job_info['easyconfig_path'] of the job a command is built for
    eb_command         \* the command _create_gitlab_job built, <<>> before

vars == <<pc, easyconfigs, PIPELINE_JOBS, JOB_DEPENDENCIES, module_to_job,
          environ, policy, pipeline, config, before, last, exit_status,
          sanitize_arg, sanitize_ret, stages_by_job, visited, frames, next_job,
          hook_module, READY_ECS, PARSED_ECS, hook_call, ready_at_start,
          argv, easyconfig_path, eb_command>>

\* the variables of a call of _sanitize_job_name on its own
sanitizeVars == <<sanitize_arg, sanitize_ret>>

\* no such call is modelled
NoSanitize == sanitize_arg = <<>> /\ sanitize_ret = <<>>

\* the variables of a call of _calculate_job_stages
stageVars == <<stages_by_job, visited, frames, next_job>>

\* no such call is modelled
NoStages == stages_by_job = EmptyDict /\ visited = {} /\ frames = <<>> /\ next_job = 0

\* the variables of the hook events
hookVars == <<hook_module, READY_ECS, PARSED_ECS, hook_call, ready_at_start>>

\* no hook event is modelled
NoHooks ==
    /\ hook_module = "none"
    /\ READY_ECS = <<>>
    /\ PARSED_ECS = <<>>
    /\ hook_call = [hook |-> "none", arg |-> <<>>, returned |-> <<>>]
    /\ ready_at_start = 0

\* the variables of the command line of a job
commandVars == <<argv, easyconfig_path, eb_command>>

\* no command line is modelled
NoCommand == argv = <<>> /\ easyconfig_path = <<>> /\ eb_command = <<>>

\* what the builder, the generators, the mergers and _sanitize_job_name leave alone
callVars == <<stageVars, hookVars, commandVars>>

NoCalls == NoStages /\ NoHooks /\ NoCommand

(* ------------------------------------------------------------------ *)
(* Dependency graph builder: _process_easyconfigs_for_jobs            *)
(* ------------------------------------------------------------------ *)

\* mutant of all_deps: the external dependencies are not filtered out
all_deps_unfiltered(ec) == ec.all_dependencies

\* all_deps = [d for d in ec.all_dependencies if not d.get('external_module', False)]
all_deps(ec) == SelectSeq(ec.all_dependencies, LAMBDA d : ~d.external_module)

\* mutant of ScanDeps: every resolved dependency becomes a pipeline dependency,
\* whether a job builds it or not
RECURSIVE ScanDeps_unchecked(_, _)
ScanDeps_unchecked(deps, m2j) ==
    IF deps = <<>> THEN [dep_mod_names |-> <<>>, job_deps |-> <<>>]
    ELSE LET dep  == Head(deps)
             rest == ScanDeps_unchecked(Tail(deps), m2j)
         IN  IF ~dep.resolvable THEN rest
             ELSE [dep_mod_names |-> <<det_full_module_name(dep)>> \o rest.dep_mod_names,
                   job_deps |-> <<det_full_module_name(dep)>> \o rest.job_deps]

\* mutant of ScanDeps: the first dependency that does not resolve ends the loop
RECURSIVE ScanDeps_stops_on_error(_, _)
ScanDeps_stops_on_error(deps, m2j) ==
    IF deps = <<>> \/ ~Head(deps).resolvable
    THEN [dep_mod_names |-> <<>>, job_deps |-> <<>>]
    ELSE LET dep_mod_name == det_full_module_name(Head(deps))
             rest == ScanDeps_stops_on_error(Tail(deps), m2j)
         IN  [dep_mod_names |-> <<dep_mod_name>> \o rest.dep_mod_names,
              job_deps |-> IF Has(m2j, dep_mod_name)
                           THEN <<dep_mod_name>> \o rest.job_deps
                           ELSE rest.job_deps]

\* variant: a dependency is noted in dep_mod_names only when a job builds it
RECURSIVE ScanDeps_only_jobs(_, _)
ScanDeps_only_jobs(deps, m2j) ==
    IF deps = <<>> THEN [dep_mod_names |-> <<>>, job_deps |-> <<>>]
    ELSE LET dep  == Head(deps)
             rest == ScanDeps_only_jobs(Tail(deps), m2j)
         IN  IF ~dep.resolvable \/ ~Has(m2j, det_full_module_name(dep)) THEN rest
             ELSE [dep_mod_names |-> <<det_full_module_name(dep)>> \o rest.dep_mod_names,
                   job_deps |-> <<det_full_module_name(dep)>> \o rest.job_deps]

\* the loop over all_deps: dep_mod_names takes every dependency whose module
\* name resolves, job_deps those of them that are keys of module_to_job
RECURSIVE ScanDeps(_, _)
ScanDeps(deps, m2j) ==
    IF deps = <<>> THEN [dep_mod_names |-> <<>>, job_deps |-> <<>>]
    ELSE LET dep  == Head(deps)
             rest == ScanDeps(Tail(deps), m2j)
         IN  IF ~dep.resolvable THEN rest
             ELSE LET dep_mod_name == det_full_module_name(dep)
                  IN  [dep_mod_names |-> <<dep_mod_name>> \o rest.dep_mod_names,
                       job_deps |-> IF Has(m2j, dep_mod_name)
                                    THEN <<dep_mod_name>> \o rest.job_deps
                                    ELSE rest.job_deps]

\* mutant of job_info: the job is entered into module_to_job before its own
\* dependencies are looked up
job_info_seen_first(ec, m2j) ==
    LET scan == ScanDeps(all_deps(ec), Put(m2j, det_full_module_name(ec), TRUE))
    IN  [name |-> easyconfig_name(ec),
         module |-> det_full_module_name(ec),
         dependencies |-> scan.dep_mod_names,
         job_dependencies |-> scan.job_deps]

\* variant: one dependency that does not resolve empties both dependency lists
job_info_drops_all(ec, m2j) ==
    LET scan == ScanDeps(all_deps(ec), m2j)
        failed == \E i \in 1..Len(all_deps(ec)) : ~all_deps(ec)[i].resolvable
    IN  [name |-> easyconfig_name(ec),
         module |-> det_full_module_name(ec),
         dependencies |-> IF failed THEN <<>> ELSE scan.dep_mod_names,
         job_dependencies |-> IF failed THEN <<>> ELSE scan.job_deps]

\* the job_info dict of one easyconfig
job_info(ec, m2j) ==
    LET scan == ScanDeps(all_deps(ec), m2j)
    IN  [name |-> easyconfig_name(ec),
         module |-> det_full_module_name(ec),
         dependencies |-> scan.dep_mod_names,
         job_dependencies |-> scan.job_deps]

\* _process_easyconfigs_for_jobs starts from empty globals
ResetJobs ==
    /\ PIPELINE_JOBS = EmptyDict
    /\ JOB_DEPENDENCIES = EmptyDict
    /\ module_to_job = EmptyDict

\* variant: an easyconfig whose module name cannot be determined empties the job set
ProcessOne_resets(st, ec) ==
    IF ~ec.resolvable
    THEN [PIPELINE_JOBS |-> EmptyDict, JOB_DEPENDENCIES |-> EmptyDict,
          module_to_job |-> st.module_to_job]
    ELSE LET info == job_info(ec, st.module_to_job)
         IN  [PIPELINE_JOBS |-> Put(st.PIPELINE_JOBS, info.module, info),
              JOB_DEPENDENCIES |-> Put(st.JOB_DEPENDENCIES, info.module, info.job_dependencies),
              module_to_job |-> Put(st.module_to_job, info.module, info)]

\* One iteration of the loop of _process_easyconfigs_for_jobs: st holds the two
\* globals and module_to_job; an easyconfig whose module name cannot be
\* determined is skipped
ProcessOne(st, ec) ==
    IF ~ec.resolvable THEN st
    ELSE LET info == job_info(ec, st.module_to_job)
         IN  [PIPELINE_JOBS |-> Put(st.PIPELINE_JOBS, info.module, info),
              JOB_DEPENDENCIES |-> Put(st.JOB_DEPENDENCIES, info.module, info.job_dependencies),
              module_to_job |-> Put(st.module_to_job, info.module, info)]

\* _process_easyconfigs_for_jobs on a whole list
RECURSIVE _process_easyconfigs_for_jobs(_)
_process_easyconfigs_for_jobs(ecs) ==
    IF ecs = <<>>
    THEN [PIPELINE_JOBS |-> EmptyDict, JOB_DEPENDENCIES |-> EmptyDict,
          module_to_job |-> EmptyDict]
    ELSE ProcessOne(_process_easyconfigs_for_jobs(SubSeq(ecs, 1, Len(ecs) - 1)),
                    ecs[Len(ecs)])

\* The loop of _process_easyconfigs_for_jobs takes the next easyconfig of its
\* argument.
ProcessEasyconfig ==
    /\ pc = "processing"
    /\ Len(easyconfigs) < MaxSpecs
    /\ \E ec \in Easyconfigs :
        LET st == ProcessOne([PIPELINE_JOBS |-> PIPELINE_JOBS,
                              JOB_DEPENDENCIES |-> JOB_DEPENDENCIES,
                              module_to_job |-> module_to_job], ec)
        IN  /\ easyconfigs' = Append(easyconfigs, ec)
            /\ PIPELINE_JOBS' = st.PIPELINE_JOBS
            /\ JOB_DEPENDENCIES' = st.JOB_DEPENDENCIES
            /\ module_to_job' = st.module_to_job
    /\ UNCHANGED <<pc, environ, policy, pipeline, config, before, last, exit_status,
                   sanitizeVars, callVars>>

(* ------------------------------------------------------------------ *)
(* Manifest generators                                                *)
(* ------------------------------------------------------------------ *)

\* top-level keys of the manifest and names of variables, each one piece of text
KStages == <<"stages">>
KVariables == <<"variables">>
KDefault == <<"default">>
SCHEDULER_PARAMETERS == <<"SCHEDULER_PARAMETERS">>
Dollar == <<"$">>

\* os.environ.get(name, default)
EnvGet(env, name, default) == IF Has(env, name) THEN Get(env, name) ELSE default

\* a dict from a sequence of <<key, value>> pairs, in that order
RECURSIVE DictOf(_)
DictOf(pairs) ==
    IF pairs = <<>> THEN EmptyDict
    ELSE LET n == Len(pairs)
         IN  Put(DictOf(SubSeq(pairs, 1, n - 1)), pairs[n][1], pairs[n][2])

\* the job dict _create_gitlab_job returns, without its command and artifacts;
\* needs = <<>> stands for a job dict without the key 'needs'
_create_gitlab_job(info, stage_name) ==
    [stage |-> stage_name, EB_MODULE_NAME |-> info.module, needs |-> <<>>]

\* gitlab_ci_hook: pipeline_deps of one job, against the manifest built so far
RECURSIVE FlatPipelineDeps(_, _)
FlatPipelineDeps(deps, pl) ==
    IF deps = <<>> THEN <<>>
    ELSE LET sanitized_dep == Sanitized(Head(deps))
         IN  (IF Has(pl, sanitized_dep) THEN <<sanitized_dep>> ELSE <<>>)
             \o FlatPipelineDeps(Tail(deps), pl)

\* variant: every job entry gets the stage named after its easyconfig
RECURSIVE FlatAddJobs_own_stage(_, _, _, _)
FlatAddJobs_own_stage(pl, jobs, jobdeps, i) ==
    IF i > Len(jobs.keys) THEN pl
    ELSE LET module_name == jobs.keys[i]
             sanitized_name == Sanitized(module_name)
             job_yaml == _create_gitlab_job(Get(jobs, module_name),
                                            Sanitized(Replace(Get(jobs, module_name).name,
                                                              <<".","e","b">>, <<>>)))
             pl1 == Put(pl, sanitized_name, job_yaml)
             deps == IF Has(jobdeps, module_name) THEN Get(jobdeps, module_name) ELSE <<>>
             pipeline_deps == FlatPipelineDeps(deps, pl1)
             pl2 == IF pipeline_deps # <<>>
                    THEN Put(pl1, sanitized_name, [job_yaml EXCEPT !.needs = pipeline_deps])
                    ELSE pl1
         IN  FlatAddJobs_own_stage(pl2, jobs, jobdeps, i + 1)

\* gitlab_ci_hook: the loop "Add jobs" of _generate_base_pipeline over the keys
\* of PIPELINE_JOBS from position i on
RECURSIVE FlatAddJobs(_, _, _, _)
FlatAddJobs(pl, jobs, jobdeps, i) ==
    IF i > Len(jobs.keys) THEN pl
    ELSE LET module_name == jobs.keys[i]
             sanitized_name == Sanitized(module_name)
             job_yaml == _create_gitlab_job(Get(jobs, module_name), <<"build">>)
             pl1 == Put(pl, sanitized_name, job_yaml)
             deps == IF Has(jobdeps, module_name) THEN Get(jobdeps, module_name) ELSE <<>>
             pipeline_deps == FlatPipelineDeps(deps, pl1)
             pl2 == IF pipeline_deps # <<>>
                    THEN Put(pl1, sanitized_name, [job_yaml EXCEPT !.needs = pipeline_deps])
                    ELSE pl1
         IN  FlatAddJobs(pl2, jobs, jobdeps, i + 1)

\* gitlab_ci_hook._generate_base_pipeline
_generate_base_pipeline(jobs, jobdeps, env) ==
    LET base == DictOf(<<
            <<KStages, <<(<<"build">>)>> >>,
            <<KVariables, DictOf(<<
                <<(<<"EASYBUILD_MODULES_TOOL">>), <<"Lmod">> >>,
                <<SCHEDULER_PARAMETERS,
                  EnvGet(env, SCHEDULER_PARAMETERS, Dollar \o SCHEDULER_PARAMETERS)>>,
                <<(<<"patheb">>), EnvGet(env, <<"patheb">>, Dollar \o <<"patheb">>)>>,
                <<(<<"CUDA_COMPUTE_CAPABILITIES">>),
                  EnvGet(env, <<"CUDA_COMPUTE_CAPABILITIES">>, <<"8.0">>)>>,
                <<(<<"DRYRUN">>), EnvGet(env, <<"DRYRUN">>, Dollar \o <<"DRYRUN">>)>>
              >>) >>
          >>)
    IN  FlatAddJobs(base, jobs, jobdeps, 1)

\* gitlab_hook: job_info['name'].replace('.eb', '') sanitized
StageName(info) == Sanitized(Replace(info.name, <<".","e","b">>, <<>>))

\* variant: the stage name of every job is appended, also when it is there already
RECURSIVE LeveledStages_appends_all(_, _, _)
LeveledStages_appends_all(stages, jobs, i) ==
    IF i > Len(jobs.keys) THEN stages
    ELSE LeveledStages_appends_all(Append(stages, StageName(Get(jobs, jobs.keys[i]))),
                                   jobs, i + 1)

\* gitlab_hook: the stages list, one entry per distinct stage name, in the
\* order of PIPELINE_JOBS
RECURSIVE LeveledStages(_, _, _)
LeveledStages(stages, jobs, i) ==
    IF i > Len(jobs.keys) THEN stages
    ELSE LET stage_name == StageName(Get(jobs, jobs.keys[i]))
         IN  LeveledStages(IF stage_name \in Range(stages) THEN stages
                           ELSE Append(stages, stage_name), jobs, i + 1)

\* gitlab_hook: pipeline_deps of one job
RECURSIVE LeveledPipelineDeps(_, _)
LeveledPipelineDeps(deps, jobs) ==
    IF deps = <<>> THEN <<>>
    ELSE (IF Has(jobs, Head(deps)) THEN <<Sanitized(Head(deps))>> ELSE <<>>)
         \o LeveledPipelineDeps(Tail(deps), jobs)

\* gitlab_hook: the loop "Add jobs" of _generate_gitlab_pipeline
RECURSIVE LeveledAddJobs(_, _, _, _)
LeveledAddJobs(pl, jobs, jobdeps, i) ==
    IF i > Len(jobs.keys) THEN pl
    ELSE LET module_name == jobs.keys[i]
             job_yaml == _create_gitlab_job(Get(jobs, module_name),
                                            StageName(Get(jobs, module_name)))
             sanitized_name == Sanitized(module_name)
             pl1 == Put(pl, sanitized_name, job_yaml)
             deps == IF Has(jobdeps, module_name) THEN Get(jobdeps, module_name) ELSE <<>>
             pipeline_deps == LeveledPipelineDeps(deps, jobs)
             pl2 == IF pipeline_deps # <<>>
                    THEN Put(pl1, sanitized_name, [job_yaml EXCEPT !.needs = pipeline_deps])
                    ELSE pl1
         IN  LeveledAddJobs(pl2, jobs, jobdeps, i + 1)

\* gitlab_hook._generate_gitlab_pipeline: the manifest it writes
_generate_gitlab_pipeline(jobs, jobdeps) ==
    LET base == DictOf(<<
            <<KStages, LeveledStages(<<>>, jobs, 1)>>,
            <<KVariables, DictOf(<<
                <<(<<"EASYBUILD_PREFIX">>), <<"/tmp/easybuild">> >>,
                <<(<<"EASYBUILD_MODULES_TOOL">>), <<"Lmod">> >>,
                <<SCHEDULER_PARAMETERS, Dollar \o SCHEDULER_PARAMETERS>>,
                <<(<<"SBATCH_ACCOUNT">>), Dollar \o <<"SBATCH_ACCOUNT">> >>,
                <<(<<"SBATCH_PARTITION">>), Dollar \o <<"SBATCH_PARTITION">> >>,
                <<(<<"SBATCH_QOS">>), Dollar \o <<"SBATCH_QOS">> >>,
                <<(<<"patheb">>), <<"${patheb:-/tmp/easybuild}">> >>,
                <<(<<"architecture_rosi">>), <<"${architecture_rosi:-x86_64}">> >>
              >>) >>
          >>)
    IN  LeveledAddJobs(base, jobs, jobdeps, 1)

\* variant: the hook returns to its caller after the generator
HookExit_returns(raised) == IF raised THEN "Exception" ELSE "returned"

\* pre_build_and_install_loop_hook after the generator call: an exception of
\* the try block is re-raised, otherwise SystemExit(0) is raised
HookExit(raised) == IF raised THEN "Exception" ELSE "SystemExit(0)"

\* no merge has run
NoMerge ==
    /\ config = [default_config |-> EmptyDict, child_variables |-> EmptyDict]
    /\ before = EmptyDict
    /\ last = [merger |-> "none", returned |-> FALSE]

\* gitlab_ci_hook: the loop has ended and _generate_and_inject_pipeline builds the
\* base manifest (no .gitlab-ci.yml to inject from)
GenerateFlat ==
    /\ pc = "processing"
    /\ PIPELINE_JOBS.keys # <<>>
    /\ pipeline' = _generate_base_pipeline(PIPELINE_JOBS, JOB_DEPENDENCIES, environ)
    /\ policy' = "flat"
    /\ pc' = "generated"
    /\ exit_status' = HookExit(FALSE)
    /\ UNCHANGED <<easyconfigs, PIPELINE_JOBS, JOB_DEPENDENCIES, module_to_job, environ,
                   config, before, last, sanitizeVars, callVars>>

\* gitlab_hook: the loop has ended and _generate_gitlab_pipeline writes the manifest
GenerateLeveled ==
    /\ pc = "processing"
    /\ PIPELINE_JOBS.keys # <<>>
    /\ pipeline' = _generate_gitlab_pipeline(PIPELINE_JOBS, JOB_DEPENDENCIES)
    /\ policy' = "leveled"
    /\ pc' = "generated"
    /\ exit_status' = HookExit(FALSE)
    /\ UNCHANGED <<easyconfigs, PIPELINE_JOBS, JOB_DEPENDENCIES, module_to_job, environ,
                   config, before, last, sanitizeVars, callVars>>

\* variant: no early return, the flat generator writes a manifest without jobs
GenerateNothing_writes ==
    /\ pc = "processing"
    /\ PIPELINE_JOBS.keys = <<>>
    /\ pipeline' = _generate_base_pipeline(PIPELINE_JOBS, JOB_DEPENDENCIES, environ)
    /\ pc' = "nojobs"
    /\ exit_status' = HookExit(FALSE)
    /\ UNCHANGED <<easyconfigs, PIPELINE_JOBS, JOB_DEPENDENCIES, module_to_job,
                   environ, policy, config, before, last, sanitizeVars, callVars>>

\* either generator with no job: a warning, no manifest
GenerateNothing ==
    /\ pc = "processing"
    /\ PIPELINE_JOBS.keys = <<>>
    /\ pc' = "nojobs"
    /\ exit_status' = HookExit(FALSE)
    /\ UNCHANGED <<easyconfigs, PIPELINE_JOBS, JOB_DEPENDENCIES, module_to_job,
                   environ, policy, pipeline, config, before, last, sanitizeVars, callVars>>

InitGraph ==
    /\ pc = "processing"
    /\ easyconfigs = <<>>
    /\ ResetJobs
    /\ environ = EmptyDict
    /\ policy = "none"
    /\ pipeline = EmptyDict
    /\ NoMerge
    /\ exit_status = "running"
    /\ NoSanitize
    /\ NoCalls

NextGraph ==
    \/ ProcessEasyconfig
    \/ GenerateFlat
    \/ GenerateLeveled
    \/ GenerateNothing

SpecGraph == InitGraph /\ [][NextGraph]_vars

(* ------------------------------------------------------------------ *)
(* External defaults document (.gitlab-ci.yml)                        *)
(* ------------------------------------------------------------------ *)

\* most keys the 'default' section of one external document sets
MaxDefaultKeys == 1
\* most variables the execute_builds job of one external document sets
MaxChildVars == 1

\* A value of the 'default' section: type is its Python type, v its content.
\* Lists and dicts have .copy(); an int or a str has not.
HasCopy(value) == value.type \in {"list", "dict"}

\* the keys the mergers look at, in the order of the code, and the values
\* the documents of the model give them
DefaultKeys == <<"before_script", "after_script", "tags", "id_tokens", "retry",
                 "timeout", "image">>

DefaultValues(k) ==
    CASE k = "before_script" -> {[type |-> "list", v |-> <<"module load eb">>]}
      [] k = "after_script"  -> {[type |-> "list", v |-> <<"rm -rf tmp">>]}
      [] k = "tags"          -> {[type |-> "list", v |-> <<"hpc">>]}
      [] k = "id_tokens"     -> {[type |-> "dict", v |-> <<"SITE_ID_TOKEN", "aud">>]}
      [] k = "retry"         -> {[type |-> "dict", v |-> <<"max", "1">>],
                                 [type |-> "int", v |-> <<"2">>]}
      [] k = "timeout"       -> {[type |-> "str", v |-> <<"2h">>]}
      [] k = "image"         -> {[type |-> "str", v |-> <<"rocky8">>],
                                 [type |-> "str", v |-> <<"rocky9">>]}

\* the fallback retry policy both mergers write
RetryFallback ==
    [type |-> "dict",
     v |-> <<"max", "2", "when", "runner_system_failure", "stuck_or_timeout_failure",
             "job_execution_timeout">>]

\* the 'default' sections: the keys of DefaultKeys at the positions pos, in
\* that order, each with one of its values
RECURSIVE DefaultSections(_)
DefaultSections(pos) ==
    IF pos = <<>> THEN {EmptyDict}
    ELSE LET k == DefaultKeys[pos[Len(pos)]]
         IN  {Put(d, k, val) : d \in DefaultSections(SubSeq(pos, 1, Len(pos) - 1)),
                               val \in DefaultValues(k)}

DefaultConfigs ==
    UNION {DefaultSections(pos) :
            pos \in {q \in SeqsUpTo(1..Len(DefaultKeys), MaxDefaultKeys) :
                        \A i \in 1..(Len(q) - 1) : q[i] < q[i + 1]}}

\* names of the variables of execute_builds: one the generators set too, one new
EB_PATH == <<"EB_PATH">>
ChildKeys == {SCHEDULER_PARAMETERS, EB_PATH}

\* the values a variable named key is given: a reference to itself, the same
\* with blanks around it, and a literal
ChildValues(key) ==
    {Dollar \o key, <<" ">> \o Dollar \o key \o <<" ">>, <<"--partition=rome">>}

RECURSIVE ChildSections(_)
ChildSections(ks) ==
    IF ks = <<>> THEN {EmptyDict}
    ELSE LET k == ks[Len(ks)]
         IN  {Put(d, k, val) : d \in ChildSections(SubSeq(ks, 1, Len(ks) - 1)),
                               val \in ChildValues(k)}

ChildVariableSets ==
    UNION {ChildSections(ks) :
            ks \in {q \in SeqsUpTo(ChildKeys, MaxChildVars) :
                       \A i, j \in 1..Len(q) : q[i] = q[j] => i = j}}

\* what _load_gitlab_ci_config / load_config_from_gitlab_ci return
Documents ==
    {[default_config |-> d, child_variables |-> c] :
        d \in DefaultConfigs, c \in ChildVariableSets}

(* ------------------------------------------------------------------ *)
(* Configuration mergers                                              *)
(* ------------------------------------------------------------------ *)

\* str.strip() for blanks
RECURSIVE Strip(_)
Strip(s) ==
    IF s = <<>> THEN s
    ELSE IF Head(s) = " " THEN Strip(Tail(s))
    ELSE IF s[Len(s)] = " " THEN Strip(SubSeq(s, 1, Len(s) - 1))
    ELSE s

\* variant: a value already in target is extended by the one of source
CopyKey_extends(target, source, k) ==
    IF Has(source, k)
    THEN IF Has(target, k)
         THEN Put(target, k, [type |-> Get(source, k).type,
                              v |-> Get(target, k).v \o Get(source, k).v])
         ELSE Put(target, k, Get(source, k))
    ELSE target

\* variant: a value already in target stays
CopyKey_keeps_existing(target, source, k) ==
    IF Has(source, k) /\ ~Has(target, k) THEN Put(target, k, Get(source, k)) ELSE target

\* target[k] = source[k] when source has k
CopyKey(target, source, k) ==
    IF Has(source, k) THEN Put(target, k, Get(source, k)) ELSE target

\* a .copy() of a value without that method raises AttributeError
CopyRaises(default_config) ==
    \E k \in {"before_script", "after_script", "tags", "id_tokens", "retry"} :
        Has(default_config, k) /\ ~HasCopy(Get(default_config, k))

\* variant: no else branch for retry
FillDefault_no_fallback(default, default_config) ==
    LET d1 == CopyKey(default, default_config, "before_script")
        d2 == CopyKey(d1, default_config, "after_script")
        d3 == CopyKey(d2, default_config, "tags")
        d4 == CopyKey(d3, default_config, "id_tokens")
        d5 == CopyKey(d4, default_config, "retry")
        d6 == CopyKey(d5, default_config, "timeout")
    IN  CopyKey(d6, default_config, "image")

\* the seven "if ... in config" statements of both mergers, writing into default
FillDefault(default, default_config) ==
    LET d1 == CopyKey(default, default_config, "before_script")
        d2 == CopyKey(d1, default_config, "after_script")
        d3 == CopyKey(d2, default_config, "tags")
        d4 == CopyKey(d3, default_config, "id_tokens")
        d5 == IF Has(default_config, "retry")
              THEN Put(d4, "retry", Get(default_config, "retry"))
              ELSE Put(d4, "retry", RetryFallback)
        d6 == CopyKey(d5, default_config, "timeout")
    IN  CopyKey(d6, default_config, "image")

\* gitlab_ci_hook: the loop over child_variables.items() from position i on
RECURSIVE MergeChildVariables(_, _, _)
MergeChildVariables(variables, child_variables, i) ==
    IF i > Len(child_variables.keys) THEN variables
    ELSE LET key == child_variables.keys[i]
             value == Get(child_variables, key)
         IN  IF Strip(value) = Dollar \o key
             THEN MergeChildVariables(variables, child_variables, i + 1)
             ELSE MergeChildVariables(
                    IF ~Has(variables, key) THEN Put(variables, key, value) ELSE variables,
                    child_variables, i + 1)

\* the manifest entries of pl from position i on that are no section, in order
RECURSIVE JobEntries(_, _, _)
JobEntries(ordered, pl, i) ==
    IF i > Len(pl.keys) THEN ordered
    ELSE LET key == pl.keys[i]
         IN  JobEntries(IF key \notin {KStages, KVariables, KDefault}
                        THEN Put(ordered, key, Get(pl, key)) ELSE ordered, pl, i + 1)

\* gitlab_ci_hook._inject_configuration, when no .copy() raises
_inject_configuration(pl, default_config, child_variables) ==
    LET default == FillDefault(EmptyDict, default_config)
        pl1 == IF child_variables.keys # <<>>
               THEN Put(pl, KVariables,
                        MergeChildVariables(
                            IF Has(pl, KVariables) THEN Get(pl, KVariables) ELSE EmptyDict,
                            child_variables, 1))
               ELSE pl
        o1 == IF Has(pl1, KStages) THEN Put(EmptyDict, KStages, Get(pl1, KStages))
              ELSE EmptyDict
        o2 == IF Has(pl1, KVariables) THEN Put(o1, KVariables, Get(pl1, KVariables)) ELSE o1
        o3 == IF default.keys # <<>> THEN Put(o2, KDefault, default) ELSE o2
    IN  JobEntries(o3, pl1, 1)

\* dict.update: every pair of other is written, in its order
RECURSIVE Update(_, _, _)
Update(d, other, i) ==
    IF i > Len(other.keys) THEN d
    ELSE Update(Put(d, other.keys[i], Get(other, other.keys[i])), other, i + 1)

\* inject_defaults.inject_pipeline_metadata, when no .copy() raises
inject_pipeline_metadata(data, cfg, child_variables) ==
    LET default == FillDefault(IF Has(data, KDefault) THEN Get(data, KDefault) ELSE EmptyDict,
                               cfg)
        data1 == Put(data, KDefault, default)
    IN  IF child_variables.keys # <<>>
        THEN Put(data1, KVariables,
                 Update(IF Has(data1, KVariables) THEN Get(data1, KVariables) ELSE EmptyDict,
                        child_variables, 1))
        ELSE data1

\* the inputs the merge runs start from: one list of easyconfigs, and the
\* environments with SCHEDULER_PARAMETERS unset and set
MergeEasyconfigs ==
    <<[name |-> PkgA.name, version |-> PkgA.version, resolvable |-> TRUE,
       all_dependencies |-> <<>>],
      [name |-> PkgC.name, version |-> PkgC.version, resolvable |-> TRUE,
       all_dependencies |-> <<[name |-> PkgA.name, version |-> PkgA.version,
                               external_module |-> FALSE, resolvable |-> TRUE]>>]>>

Environs == {EmptyDict, Put(EmptyDict, SCHEDULER_PARAMETERS, <<"--qos=long">>)}

\* gitlab_ci_hook._generate_and_inject_pipeline with a .gitlab-ci.yml: the base
\* manifest, merged with the document; nothing is written when the merge raises
HookGenerateAndInject ==
    /\ pc = "processing"
    /\ PIPELINE_JOBS.keys # <<>>
    /\ \E doc \in Documents :
        LET base == _generate_base_pipeline(PIPELINE_JOBS, JOB_DEPENDENCIES, environ)
        IN  /\ config' = doc
            /\ before' = base
            /\ IF CopyRaises(doc.default_config)
               THEN /\ last' = [merger |-> "hook", returned |-> FALSE]
                    /\ pc' = "raised"
                    /\ exit_status' = HookExit(TRUE)
                    /\ UNCHANGED pipeline
               ELSE /\ last' = [merger |-> "hook", returned |-> TRUE]
                    /\ pc' = "generated"
                    /\ exit_status' = HookExit(FALSE)
                    /\ pipeline' = _inject_configuration(base, doc.default_config,
                                                         doc.child_variables)
    /\ policy' = "flat"
    /\ UNCHANGED <<easyconfigs, PIPELINE_JOBS, JOB_DEPENDENCIES, module_to_job, environ,
                   sanitizeVars, callVars>>

\* inject_defaults.main on the manifest file: load, merge, write back; the file
\* stays as it was when the merge raises
ScriptInject ==
    /\ pc = "generated"
    /\ \E doc \in Documents :
        /\ config' = doc
        /\ before' = pipeline
        /\ IF CopyRaises(doc.default_config)
           THEN /\ last' = [merger |-> "script", returned |-> FALSE]
                /\ UNCHANGED pipeline
           ELSE /\ last' = [merger |-> "script", returned |-> TRUE]
                /\ pipeline' = inject_pipeline_metadata(pipeline, doc.default_config,
                                                        doc.child_variables)
    /\ pc' = "injected"
    /\ UNCHANGED <<easyconfigs, PIPELINE_JOBS, JOB_DEPENDENCIES, module_to_job, environ,
                   policy, exit_status, sanitizeVars, callVars>>

InitMerge ==
    /\ pc = "processing"
    /\ easyconfigs = MergeEasyconfigs
    /\ LET st == _process_easyconfigs_for_jobs(MergeEasyconfigs)
       IN  /\ PIPELINE_JOBS = st.PIPELINE_JOBS
           /\ JOB_DEPENDENCIES = st.JOB_DEPENDENCIES
           /\ module_to_job = st.module_to_job
    /\ environ \in Environs
    /\ policy = "none"
    /\ pipeline = EmptyDict
    /\ NoMerge
    /\ exit_status = "running"
    /\ NoSanitize
    /\ NoCalls

NextMerge ==
    \/ GenerateFlat
    \/ GenerateLeveled
    \/ HookGenerateAndInject
    \/ ScriptInject

SpecMerge == InitMerge /\ [][NextMerge]_vars

(* ------------------------------------------------------------------ *)
(* One call of _sanitize_job_name                                     *)
(* ------------------------------------------------------------------ *)

\* longest name handed to _sanitize_job_name
MaxNameLen == 3

\* the characters the names are made of: every character the function
\* treats, a letter, a digit, the underscore and two it leaves alone
NameChars == {"/", ":", "+", "(", ")", " ", "a", "1", "_", "-", "."}

Names == SeqsUpTo(NameChars, MaxNameLen)

InitSanitize ==
    /\ pc = "sanitize"
    /\ sanitize_arg \in Names
    /\ sanitize_ret = <<>>
    /\ easyconfigs = <<>>
    /\ ResetJobs
    /\ environ = EmptyDict
    /\ policy = "none"
    /\ pipeline = EmptyDict
    /\ NoMerge
    /\ exit_status = "running"
    /\ NoCalls

\* the call returns
SanitizeJobName ==
    /\ pc = "sanitize"
    /\ sanitize_ret' = _sanitize_job_name(sanitize_arg)
    /\ pc' = "sanitized"
    /\ UNCHANGED <<sanitize_arg, easyconfigs, PIPELINE_JOBS, JOB_DEPENDENCIES,
                   module_to_job, environ, policy, pipeline, config, before, last,
                   exit_status, callVars>>

NextSanitize == SanitizeJobName

SpecSanitize == InitSanitize /\ [][NextSanitize]_vars

(* ------------------------------------------------------------------ *)
(* gitlab_hook._calculate_job_stages, one step of get_stage at a time  *)
(* ------------------------------------------------------------------ *)

\* the easyconfigs the job graphs of this part are built from: the module
\* name resolves, and so does every dependency, none of them external
StageEasyconfigs ==
    {ec \in Easyconfigs :
        /\ ec.resolvable
        /\ \A d \in Range(ec.all_dependencies) : ~d.external_module /\ d.resolvable}

\* max(a, b)
Max2(a, b) == IF a >= b THEN a ELSE b

\* stages.get(module_name, 0)
StagesGet(d, m) == IF Has(d, m) THEN Get(d, m) ELSE 0

\* a call of get_stage(module_name) that has just been entered
Called(m) == [module_name |-> m, at |-> "entry", i |-> 0, max_dep_stage |-> 0]

\* variant: the level of the last dependency replaces the maximum
Resume_last_dep(frame, dep_stage) ==
    [frame EXCEPT !.max_dep_stage = dep_stage, !.i = @ + 1]

\* variant: the loop over deps stays at the same dependency
Resume_same_dep(frame, dep_stage) ==
    [frame EXCEPT !.max_dep_stage = Max2(@, dep_stage)]

\* the caller after "dep_stage = get_stage(dep)": the maximum is updated and
\* the loop over deps goes to the next dependency
Resume(frame, dep_stage) ==
    [frame EXCEPT !.max_dep_stage = Max2(@, dep_stage), !.i = @ + 1]

\* get_stage returns value: its frame is left; a calling get_stage resumes,
\* the outer loop discards the value
Return(value) ==
    LET rest == SubSeq(frames, 1, Len(frames) - 1)
    IN  IF rest = <<>> THEN <<>>
        ELSE [rest EXCEPT ![Len(rest)] = Resume(rest[Len(rest)], value)]

\* the innermost call of get_stage
Top == frames[Len(frames)]

\* JOB_DEPENDENCIES.get(module_name, [])
DepsOf(m) == IF Has(JOB_DEPENDENCIES, m) THEN Get(JOB_DEPENDENCIES, m) ELSE <<>>

\* "for module_name in PIPELINE_JOBS: get_stage(module_name)": the next call
OuterCall ==
    /\ pc = "stages"
    /\ frames = <<>>
    /\ next_job <= Len(PIPELINE_JOBS.keys)
    /\ frames' = <<Called(PIPELINE_JOBS.keys[next_job])>>
    /\ next_job' = next_job + 1
    /\ UNCHANGED <<pc, easyconfigs, PIPELINE_JOBS, JOB_DEPENDENCIES, module_to_job,
                   environ, policy, pipeline, config, before, last, exit_status,
                   sanitizeVars, stages_by_job, visited, hookVars, commandVars>>

\* get_stage on a module name that is in visited: "return stages.get(module_name, 0)"
GetStageVisited ==
    /\ pc = "stages"
    /\ frames # <<>>
    /\ Top.at = "entry"
    /\ Top.module_name \in visited
    /\ frames' = Return(StagesGet(stages_by_job, Top.module_name))
    /\ UNCHANGED <<pc, easyconfigs, PIPELINE_JOBS, JOB_DEPENDENCIES, module_to_job,
                   environ, policy, pipeline, config, before, last, exit_status,
                   sanitizeVars, stages_by_job, visited, next_job, hookVars,
                   commandVars>>

\* get_stage on a new module name without dependencies: level 0
GetStageNoDeps ==
    /\ pc = "stages"
    /\ frames # <<>>
    /\ Top.at = "entry"
    /\ Top.module_name \notin visited
    /\ DepsOf(Top.module_name) = <<>>
    /\ visited' = visited \cup {Top.module_name}
    /\ stages_by_job' = Put(stages_by_job, Top.module_name, 0)
    /\ frames' = Return(0)
    /\ UNCHANGED <<pc, easyconfigs, PIPELINE_JOBS, JOB_DEPENDENCIES, module_to_job,
                   environ, policy, pipeline, config, before, last, exit_status,
                   sanitizeVars, next_job, hookVars, commandVars>>

\* get_stage on a new module name with dependencies: the loop over deps begins
GetStageEnterLoop ==
    /\ pc = "stages"
    /\ frames # <<>>
    /\ Top.at = "entry"
    /\ Top.module_name \notin visited
    /\ DepsOf(Top.module_name) # <<>>
    /\ visited' = visited \cup {Top.module_name}
    /\ frames' = [frames EXCEPT ![Len(frames)] = [@ EXCEPT !.at = "loop", !.i = 1]]
    /\ UNCHANGED <<pc, easyconfigs, PIPELINE_JOBS, JOB_DEPENDENCIES, module_to_job,
                   environ, policy, pipeline, config, before, last, exit_status,
                   sanitizeVars, stages_by_job, next_job, hookVars, commandVars>>

\* "for dep in deps: if dep in PIPELINE_JOBS: dep_stage = get_stage(dep)": the
\* call for a dependency that is a job, the next dependency otherwise
GetStageDep ==
    /\ pc = "stages"
    /\ frames # <<>>
    /\ Top.at = "loop"
    /\ Top.i <= Len(DepsOf(Top.module_name))
    /\ LET dep == DepsOf(Top.module_name)[Top.i]
       IN  frames' = IF Has(PIPELINE_JOBS, dep)
                     THEN Append(frames, Called(dep))
                     ELSE [frames EXCEPT ![Len(frames)] = [@ EXCEPT !.i = @ + 1]]
    /\ UNCHANGED <<pc, easyconfigs, PIPELINE_JOBS, JOB_DEPENDENCIES, module_to_job,
                   environ, policy, pipeline, config, before, last, exit_status,
                   sanitizeVars, stages_by_job, visited, next_job, hookVars,
                   commandVars>>

\* the loop over deps has ended: "stages[module_name] = max_dep_stage + 1" and return
GetStageAssign ==
    /\ pc = "stages"
    /\ frames # <<>>
    /\ Top.at = "loop"
    /\ Top.i > Len(DepsOf(Top.module_name))
    /\ stages_by_job' = Put(stages_by_job, Top.module_name, Top.max_dep_stage + 1)
    /\ frames' = Return(Top.max_dep_stage + 1)
    /\ UNCHANGED <<pc, easyconfigs, PIPELINE_JOBS, JOB_DEPENDENCIES, module_to_job,
                   environ, policy, pipeline, config, before, last, exit_status,
                   sanitizeVars, visited, next_job, hookVars, commandVars>>

\* the outer loop has ended: "return stages"
ReturnStages ==
    /\ pc = "stages"
    /\ frames = <<>>
    /\ next_job > Len(PIPELINE_JOBS.keys)
    /\ pc' = "staged"
    /\ UNCHANGED <<easyconfigs, PIPELINE_JOBS, JOB_DEPENDENCIES, module_to_job,
                   environ, policy, pipeline, config, before, last, exit_status,
                   sanitizeVars, stageVars, hookVars, commandVars>>

\* _calculate_job_stages is called on the job graph the builder made of a list
\* of easyconfigs
InitStages ==
    /\ pc = "stages"
    /\ easyconfigs \in SeqsUpTo(StageEasyconfigs, MaxSpecs)
    /\ LET st == _process_easyconfigs_for_jobs(easyconfigs)
       IN  /\ PIPELINE_JOBS = st.PIPELINE_JOBS
           /\ JOB_DEPENDENCIES = st.JOB_DEPENDENCIES
           /\ module_to_job = st.module_to_job
    /\ environ = EmptyDict
    /\ policy = "none"
    /\ pipeline = EmptyDict
    /\ NoMerge
    /\ exit_status = "running"
    /\ NoSanitize
    /\ stages_by_job = EmptyDict
    /\ visited = {}
    /\ frames = <<>>
    /\ next_job = 1
    /\ NoHooks
    /\ NoCommand

NextStages ==
    \/ OuterCall
    \/ GetStageVisited
    \/ GetStageNoDeps
    \/ GetStageEnterLoop
    \/ GetStageDep
    \/ GetStageAssign
    \/ ReturnStages

SpecStages == InitStages /\ [][NextStages]_vars

\* the interpreter runs the call: a step that can be taken is taken
SpecStagesFair == SpecStages /\ WF_vars(NextStages)

(* ------------------------------------------------------------------ *)
(* gitlab_ci_hook._create_gitlab_job: the command line of a job        *)
(* ------------------------------------------------------------------ *)

MaxArgs == 3

\* arguments of a command line: --robot, --job, --job-cores=4, --hooks,
\* --hooks=h.py, h.py and c-2.eb
Args ==
    {<<"-","-","r","o","b","o","t">>,
     <<"-","-","j","o","b">>,
     <<"-","-","j","o","b","-","c","o","r","e","s","=","4">>,
     <<"-","-","h","o","o","k","s">>,
     <<"-","-","h","o","o","k","s","=","h",".","p","y">>,
     <<"h",".","p","y">>,
     <<"c","-","2",".","e","b">>}

\* sys.argv: the program name, then up to MaxArgs arguments
Argvs == {<<<<"e","b">>>> \o a : a \in SeqsUpTo(Args, MaxArgs)}

\* job_info['easyconfig_path']
EasyconfigPaths == {<<"/","p","/","c","-","2",".","e","b">>, <<"c","-","2",".","e","b">>}

DRYRUN == <<"DRYRUN">>

\* os.environ for the command line: DRYRUN unset or set
CommandEnvirons ==
    {EmptyDict} \cup
    {Put(EmptyDict, DRYRUN, v) :
        v \in {<<"t","r","u","e">>, <<"T","R","U","E">>, <<"1">>, <<"n","o">>, <<"y","e","s">>}}

\* str.lower() on one character, for the letters that occur
LowerChar(c) ==
    CASE c = "T" -> "t" [] c = "R" -> "r" [] c = "U" -> "u" [] c = "E" -> "e"
      [] OTHER -> c

\* str.lower()
Lower(s) == [i \in 1..Len(s) |-> LowerChar(s[i])]

\* str.endswith
EndsWith(s, p) == Len(s) >= Len(p) /\ SubSeq(s, Len(s) - Len(p) + 1, Len(s)) = p

\* ' '.join(words)
RECURSIVE Join(_)
Join(words) ==
    IF words = <<>> THEN <<>>
    ELSE IF Len(words) = 1 THEN words[1]
    ELSE words[1] \o <<" ">> \o Join(Tail(words))

\* os.path.basename: what follows the last '/'
RECURSIVE Basename(_)
Basename(path) ==
    IF \E k \in 1..Len(path) : path[k] = "/"
    THEN Basename(Tail(path))
    ELSE path

\* some entry of skip_options is a prefix of arg
SkipThis(arg) ==
    \/ StartsWith(arg, <<"-","-","h","o","o","k","s">>)
    \/ StartsWith(arg, <<"-","-","j","o","b">>)

\* the while loop of _create_gitlab_job from position i of argv on: eb_args
RECURSIVE EbArgs(_, _)
EbArgs(av, i) ==
    IF i > Len(av) THEN <<>>
    ELSE LET arg == av[i]
             skip_this == SkipThis(arg)
             skip_next == /\ skip_this
                          /\ "=" \notin Range(arg)
                          /\ i + 1 <= Len(av)
                          /\ ~StartsWith(av[i + 1], <<"-">>)
         IN  (IF ~skip_this /\ ~EndsWith(arg, <<".","e","b">>) THEN <<arg>> ELSE <<>>)
             \o EbArgs(av, IF skip_next THEN i + 2 ELSE i + 1)

\* os.environ.get('DRYRUN', '').lower() in ['1', 'true', 'yes']
DryRun(env) ==
    Lower(EnvGet(env, DRYRUN, <<>>)) \in {<<"1">>, <<"t","r","u","e">>, <<"y","e","s">>}

\* the command _create_gitlab_job puts in the script of a job
EbCommand(av, env, path) ==
    <<"e","b"," ">> \o Join(EbArgs(av, 2))
        \o (IF DryRun(env) THEN <<" ","-","-","d","r","y","-","r","u","n">> ELSE <<>>)
        \o <<" ">> \o Basename(path)

\* _create_gitlab_job is called for a job
InitCommand ==
    /\ pc = "command"
    /\ argv \in Argvs
    /\ environ \in CommandEnvirons
    /\ easyconfig_path \in EasyconfigPaths
    /\ eb_command = <<>>
    /\ easyconfigs = <<>>
    /\ ResetJobs
    /\ policy = "none"
    /\ pipeline = EmptyDict
    /\ NoMerge
    /\ exit_status = "running"
    /\ NoSanitize
    /\ NoStages
    /\ NoHooks

\* the command has been built
CreateGitlabJob ==
    /\ pc = "command"
    /\ eb_command' = EbCommand(argv, environ, easyconfig_path)
    /\ pc' = "commanded"
    /\ UNCHANGED <<easyconfigs, PIPELINE_JOBS, JOB_DEPENDENCIES, module_to_job,
                   environ, policy, pipeline, config, before, last, exit_status,
                   sanitizeVars, stageVars, hookVars, argv, easyconfig_path>>

NextCommand == CreateGitlabJob

SpecCommand == InitCommand /\ [][NextCommand]_vars

(* ------------------------------------------------------------------ *)
(* The hooks EasyBuild calls, in any order, in one process            *)
(* ------------------------------------------------------------------ *)

MaxEcs == 2
MaxReady == 2
MaxParsed == 1

\* the easyconfig objects the hooks are handed: without dependencies; the
\* module name of one of them cannot be determined
HookEcs ==
    {ec \in Easyconfigs :
        ec.all_dependencies = <<>> /\ (ec.resolvable => ec.name \in {PkgA.name, PkgC.name})}

\* The records _process_easyconfigs_for_jobs is handed.  "post_ready": the dict
\* post_ready_hook makes (keys ec, spec, name, version, ...); "standard": the
\* dict of EasyBuild (keys ec, spec, short_mod_name, full_mod_name, ..., no name
\* and no version); "bare": the easyconfig object itself.
HookRecords ==
    {[format |-> f, ec |-> ec] : f \in {"post_ready", "standard", "bare"}, ec \in HookEcs}

\* the ec_dict arguments of parse_hook
ParsedDicts == {[spec |-> path] : path \in EasyconfigPaths}

GITLAB_CI_GENERATE == <<"GITLAB_CI_GENERATE">>

\* os.environ for the hooks
HookEnvirons ==
    {EmptyDict} \cup
    {Put(EmptyDict, GITLAB_CI_GENERATE, v) : v \in {<<"T","R","U","E">>, <<"n","o">>}}

\* sys.argv for the hooks
HookArgvs == {<<<<"e","b">>>>, <<<<"e","b">>, <<"-","-","g","i","t","l","a","b","-","c","i","-","g","e","n","e","r","a","t","e">>>>}

\* "p in s" for two texts
Contains(s, p) ==
    \E k \in 1..(Len(s) - Len(p) + 1) : SubSeq(s, k, k + Len(p) - 1) = p

\* gitlab_hook.build_option('gitlab_ci_generate')
gitlab_ci_generate(env, av) ==
    \/ Lower(EnvGet(env, GITLAB_CI_GENERATE, <<>>)) \in {<<"1">>, <<"t","r","u","e">>, <<"y","e","s">>}
    \/ <<"-","-","g","i","t","l","a","b","-","c","i","-","g","e","n","e","r","a","t","e">> \in Range(av)
    \/ \E k \in 1..Len(av) : Contains(Lower(av[k]), <<"g","i","t","l","a","b","-","c","i">>)

\* variant: no hook tests whether generation is enabled
HookActs_untested(module, env, av) == TRUE

\* whether a hook of the module goes past its first lines: the hooks of
\* gitlab_hook return at once while generation is not enabled, those of
\* gitlab_ci_hook have no such test
HookActs(module, env, av) ==
    module = "gitlab_ci_hook" \/ gitlab_ci_generate(env, av)

\* "Handle different easyconfig formats": whether the branch taken for the
\* record gives an easyconfig object.  In gitlab_hook a dict with the key 'ec'
\* is read as easyconfig['name'], easyconfig['version'], which a standard dict
\* lacks: KeyError, caught by the except of the loop body, the record is left out.
Unwraps(module, rec) ==
    ~(module = "gitlab_hook" /\ rec.format = "standard")

\* _process_easyconfigs_for_jobs of the module on a list of records
RECURSIVE ProcessRecords(_, _)
ProcessRecords(module, recs) ==
    IF recs = <<>>
    THEN [PIPELINE_JOBS |-> EmptyDict, JOB_DEPENDENCIES |-> EmptyDict,
          module_to_job |-> EmptyDict]
    ELSE LET st == ProcessRecords(module, SubSeq(recs, 1, Len(recs) - 1))
             rec == recs[Len(recs)]
         IN  IF Unwraps(module, rec) THEN ProcessOne(st, rec.ec) ELSE st

\* a call of a hook: which, its argument and what it returned (<<>> for None)
HookCall(h, arg, returned) == [hook |-> h, arg |-> arg, returned |-> returned]

\* start_hook: the job set is reset, the collected lists are not
StartHook ==
    /\ pc = "hooks"
    /\ hook_call' = HookCall("start_hook", <<>>, <<>>)
    /\ IF HookActs(hook_module, environ, argv)
       THEN /\ PIPELINE_JOBS' = EmptyDict
            /\ JOB_DEPENDENCIES' = EmptyDict
            /\ ready_at_start' = Len(READY_ECS)
       ELSE UNCHANGED <<PIPELINE_JOBS, JOB_DEPENDENCIES, ready_at_start>>
    /\ UNCHANGED <<pc, easyconfigs, module_to_job, environ, policy, pipeline, config,
                   before, last, exit_status, sanitizeVars, stageVars, hook_module,
                   READY_ECS, PARSED_ECS, commandVars>>

\* parse_hook(ec_dict)
ParseHook ==
    /\ pc = "hooks"
    /\ Len(PARSED_ECS) < MaxParsed
    /\ \E ec_dict \in ParsedDicts :
        /\ hook_call' = HookCall("parse_hook", <<ec_dict>>, <<ec_dict>>)
        /\ PARSED_ECS' = IF HookActs(hook_module, environ, argv)
                         THEN Append(PARSED_ECS, ec_dict)
                         ELSE PARSED_ECS
    /\ UNCHANGED <<pc, easyconfigs, PIPELINE_JOBS, JOB_DEPENDENCIES, module_to_job,
                   environ, policy, pipeline, config, before, last, exit_status,
                   sanitizeVars, stageVars, hook_module, READY_ECS, ready_at_start,
                   commandVars>>

\* post_ready_hook(ec)
PostReadyHook ==
    /\ pc = "hooks"
    /\ Len(READY_ECS) < MaxReady
    /\ \E ec \in HookEcs :
        /\ hook_call' = HookCall("post_ready_hook", <<>>, <<>>)
        /\ READY_ECS' = IF HookActs(hook_module, environ, argv)
                        THEN Append(READY_ECS, [format |-> "post_ready", ec |-> ec])
                        ELSE READY_ECS
    /\ UNCHANGED <<pc, easyconfigs, PIPELINE_JOBS, JOB_DEPENDENCIES, module_to_job,
                   environ, policy, pipeline, config, before, last, exit_status,
                   sanitizeVars, stageVars, hook_module, PARSED_ECS, ready_at_start,
                   commandVars>>

\* pre_build_and_install_loop_hook(ecs), no .gitlab-ci.yml in the directory:
\* the builder on READY_ECS, or on ecs when READY_ECS is empty, the generator
\* of the module, and SystemExit(0)
PreBuildHook ==
    /\ pc = "hooks"
    /\ \E ecs \in SeqsUpTo(HookRecords, MaxEcs) :
        IF ~HookActs(hook_module, environ, argv)
        THEN /\ hook_call' = HookCall("pre_build_and_install_loop_hook", <<>>, <<>>)
             /\ UNCHANGED <<pc, easyconfigs, PIPELINE_JOBS, JOB_DEPENDENCIES,
                            module_to_job, policy, pipeline, exit_status>>
        ELSE LET source == IF READY_ECS # <<>> THEN READY_ECS ELSE ecs
                 st == ProcessRecords(hook_module, source)
             IN  /\ hook_call' = HookCall("pre_build_and_install_loop_hook", ecs, <<>>)
                 /\ easyconfigs' = [k \in 1..Len(source) |-> source[k].ec]
                 /\ PIPELINE_JOBS' = st.PIPELINE_JOBS
                 /\ JOB_DEPENDENCIES' = st.JOB_DEPENDENCIES
                 /\ module_to_job' = st.module_to_job
                 /\ pipeline' =
                        IF st.PIPELINE_JOBS.keys = <<>> THEN pipeline
                        ELSE IF hook_module = "gitlab_ci_hook"
                        THEN _generate_base_pipeline(st.PIPELINE_JOBS, st.JOB_DEPENDENCIES,
                                                     environ)
                        ELSE _generate_gitlab_pipeline(st.PIPELINE_JOBS, st.JOB_DEPENDENCIES)
                 /\ policy' =
                        IF st.PIPELINE_JOBS.keys = <<>> THEN policy
                        ELSE IF hook_module = "gitlab_ci_hook" THEN "flat" ELSE "leveled"
                 /\ exit_status' = HookExit(FALSE)
                 /\ pc' = "exited"
    /\ UNCHANGED <<environ, config, before, last, sanitizeVars, stageVars, hook_module,
                   READY_ECS, PARSED_ECS, ready_at_start, commandVars>>

\* a hooks module has been loaded
InitHooks ==
    /\ pc = "hooks"
    /\ hook_module \in {"gitlab_ci_hook", "gitlab_hook"}
    /\ environ \in HookEnvirons
    /\ argv \in HookArgvs
    /\ READY_ECS = <<>>
    /\ PARSED_ECS = <<>>
    /\ hook_call = HookCall("none", <<>>, <<>>)
    /\ ready_at_start = 0
    /\ easyconfigs = <<>>
    /\ ResetJobs
    /\ policy = "none"
    /\ pipeline = EmptyDict
    /\ NoMerge
    /\ exit_status = "running"
    /\ NoSanitize
    /\ NoStages
    /\ easyconfig_path = <<>>
    /\ eb_command = <<>>

NextHooks ==
    \/ StartHook
    \/ ParseHook
    \/ PostReadyHook
    \/ PreBuildHook

SpecHooks == InitHooks /\ [][NextHooks]_vars

(* ------------------------------------------------------------------ *)
(* The input as the properties see it                                 *)
(* ------------------------------------------------------------------ *)

JobKeys == Range(PIPELINE_JOBS.keys)

\* positions of the input whose own module name resolves to m
Positions(m) ==
    {i \in 1..Len(easyconfigs) :
        easyconfigs[i].resolvable /\ det_full_module_name(easyconfigs[i]) = m}

Max(S) == CHOOSE x \in S : \A y \in S : y <= x
Min(S) == CHOOSE x \in S : \A y \in S : x <= y

\* the position of the easyconfig the record of job m was made from
RecordedAt(m) == Max(Positions(m))

\* module names of the non-external dependencies of ec that resolve
BuildableDeps(ec) ==
    {det_full_module_name(d) :
        d \in {x \in Range(ec.all_dependencies) : ~x.external_module /\ x.resolvable}}

\* module names processed strictly before position i
SeenBefore(i) ==
    {det_full_module_name(easyconfigs[j]) :
        j \in {k \in 1..(i - 1) : easyconfigs[k].resolvable}}

\* every dependency that the input builds at all is built before its dependent
DependenciesFirst ==
    \A i \in 1..Len(easyconfigs) :
        easyconfigs[i].resolvable =>
            \A d \in BuildableDeps(easyconfigs[i]) :
                Positions(d) # {} => d \in SeenBefore(i)

\* no module name is built by two easyconfigs of the input
NoRepeatedIdentity == \A m \in JobKeys : Cardinality(Positions(m)) = 1

\* the two places a job's pipeline dependencies are recorded in
RecordedEdges(m) ==
    Range(Get(JOB_DEPENDENCIES, m)) \cup Range(Get(PIPELINE_JOBS, m).job_dependencies)

\* the job entries of the manifest: every key but the three section names
ManifestJobs ==
    {k \in Range(pipeline.keys) : k \notin {KStages, KVariables, KDefault}}

(* ------------------------------------------------------------------ *)
(* Claims about the dependency graph builder                          *)
(* ------------------------------------------------------------------ *)

\* C1: when every dependency stands before its dependents in the input, the
\* pipeline dependencies recorded for a job are exactly the non-external,
\* resolvable dependencies of its easyconfig that were in the job set when
\* the job was processed, which are then exactly those in the final job set.
C1_ExactEdges ==
    DependenciesFirst =>
        \A m \in JobKeys :
            LET ec == easyconfigs[RecordedAt(m)]
            IN  /\ Range(Get(JOB_DEPENDENCIES, m))
                     = BuildableDeps(ec) \cap SeenBefore(RecordedAt(m))
                /\ Range(Get(PIPELINE_JOBS, m).job_dependencies)
                     = BuildableDeps(ec) \cap SeenBefore(RecordedAt(m))
                /\ Range(Get(JOB_DEPENDENCIES, m)) = BuildableDeps(ec) \cap JobKeys

\* C1 witness: X, Y (depends on X), Z (depends on X and on an external
\* package) processed in this order give Y -> [X] and Z -> [X].
C1_Witness ==
    /\ Len(easyconfigs) = 3
    /\ DependenciesFirst
    /\ PIPELINE_JOBS.keys = <<ModA, ModC, ModB>>
    /\ easyconfigs[1].all_dependencies = <<>>
    /\ Len(easyconfigs[3].all_dependencies) = 2
    /\ easyconfigs[3].all_dependencies[2].external_module
    /\ Get(JOB_DEPENDENCIES, ModC) = <<ModA>>
    /\ Get(JOB_DEPENDENCIES, ModB) = <<ModA>>

\* C2: every recorded pipeline dependency of every job is a key of PIPELINE_JOBS.
C2_EdgesInJobSet ==
    /\ Range(JOB_DEPENDENCIES.keys) = JobKeys
    /\ \A m \in JobKeys : RecordedEdges(m) \subseteq JobKeys

\* C2 witness: a job with a pipeline dependency, beside a dependency that no
\* job of the run builds.
C2_Witness ==
    \E m \in JobKeys :
        /\ Get(JOB_DEPENDENCIES, m) # <<>>
        /\ \E d \in Range(Get(PIPELINE_JOBS, m).dependencies) : d \notin JobKeys

C4_NoExternalEdge ==
    /\ \A m \in JobKeys :
          RecordedEdges(m) \subseteq BuildableDeps(easyconfigs[RecordedAt(m)])
    /\ pc = "generated" =>
          \A n \in ManifestJobs : \A x \in Range(Get(pipeline, n).needs) :
              \E m \in JobKeys :
                  /\ Sanitized(m) = n
                  /\ \E d \in BuildableDeps(easyconfigs[RecordedAt(m)]) : Sanitized(d) = x

\* C4 witness: a manifest for a job whose only dependency is external and is
\* built by an earlier job of the same run; the job has no edge and no needs.
C4_Witness ==
    /\ pc = "generated"
    /\ Len(easyconfigs) = 2
    /\ PIPELINE_JOBS.keys = <<ModA, ModC>>
    /\ Len(easyconfigs[2].all_dependencies) = 1
    /\ easyconfigs[2].all_dependencies[1].external_module
    /\ det_full_module_name(easyconfigs[2].all_dependencies[1]) = ModA
    /\ Get(JOB_DEPENDENCIES, ModC) = <<>>
    /\ Get(pipeline, Sanitized(ModC)).needs = <<>>

\* C5 as claimed: two distinct module names of the job set never have the same
\* sanitized job name.
C5_UniqueSanitizedNames ==
    \A m1, m2 \in JobKeys : m1 # m2 => _sanitize_job_name(m1) # _sanitize_job_name(m2)

(* ------------------------------------------------------------------ *)
(* Properties of the configuration mergers (SpecMerge)                *)
(* ------------------------------------------------------------------ *)

\* a merger ran on the manifest 'before' with the document 'config' and returned
Merged == last.merger \in {"hook", "script"} /\ last.returned

SectionOf(pl, k) == IF Has(pl, k) THEN Get(pl, k) ELSE EmptyDict

\* C6: after either merger has run, every key the manifest had in its global
\* variables, and every key other than retry it had in its default section,
\* still has the value it had before the merge.
C6_GeneratedValuesWin ==
    Merged =>
        /\ \A k \in Range(SectionOf(before, KVariables).keys) :
              /\ Has(SectionOf(pipeline, KVariables), k)
              /\ Get(SectionOf(pipeline, KVariables), k) = Get(SectionOf(before, KVariables), k)
        /\ \A k \in Range(SectionOf(before, KDefault).keys) \ {"retry"} :
              /\ Has(SectionOf(pipeline, KDefault), k)
              /\ Get(SectionOf(pipeline, KDefault), k) = Get(SectionOf(before, KDefault), k)

\* C7: after either merger has run, a variable the document binds to a
\* reference to itself (KEY: "$KEY") and the manifest did not have before is
\* not in the manifest's variables.
C7_SelfReferenceNotCopied ==
    Merged =>
        \A k \in Range(config.child_variables.keys) :
            (Get(config.child_variables, k) = Dollar \o k
             /\ ~Has(SectionOf(before, KVariables), k))
            => ~Has(SectionOf(pipeline, KVariables), k)

\* C8: the manifest a merger has produced from a document is a fixed point of
\* that merger with that document: merging a second time gives the same
\* manifest, with the same keys in the same order and the same values.
C8_MergeIdempotent ==
    /\ (last.merger = "hook" /\ last.returned)
         => _inject_configuration(pipeline, config.default_config, config.child_variables)
            = pipeline
    /\ (last.merger = "script" /\ last.returned)
         => inject_pipeline_metadata(pipeline, config.default_config, config.child_variables)
            = pipeline

\* the script has merged a document with a default key and a variable into a
\* manifest, and the merge changed the manifest
C8_Witness ==
    /\ last = [merger |-> "script", returned |-> TRUE]
    /\ config.default_config.keys # <<>>
    /\ config.child_variables.keys # <<>>
    /\ pipeline # before

\* C9: after a merge, default.retry is the retry value of the document when
\* its default section has one, and otherwise the policy with max 2 and when
\* runner_system_failure, stuck_or_timeout_failure, job_execution_timeout.
C9_RetryPolicy ==
    Merged =>
        /\ Has(pipeline, KDefault)
        /\ Has(Get(pipeline, KDefault), "retry")
        /\ Get(Get(pipeline, KDefault), "retry") =
             IF Has(config.default_config, "retry")
             THEN Get(config.default_config, "retry")
             ELSE [type |-> "dict",
                   v |-> <<"max", "2", "when", "runner_system_failure",
                           "stuck_or_timeout_failure", "job_execution_timeout">>]

\* a merge with a document that has a default key but no retry has returned
C9_Witness ==
    /\ Merged
    /\ config.default_config.keys # <<>>
    /\ ~Has(config.default_config, "retry")
    /\ Has(SectionOf(pipeline, KDefault), "retry")

\* the keys copied as they are
CopiedKeys == {"before_script", "after_script", "tags", "id_tokens", "timeout", "image"}

\* C10 as stated: after a merge each copied key is in the default section of
\* the manifest exactly when it is in the one of the document, and then with
\* an equal value.
C10_Original ==
    Merged =>
        \A k \in CopiedKeys :
            /\ Has(SectionOf(pipeline, KDefault), k) <=> Has(config.default_config, k)
            /\ Has(config.default_config, k)
                 => Get(SectionOf(pipeline, KDefault), k) = Get(config.default_config, k)

\* C10: after a merge each copied key the document has is in the default
\* section of the manifest with an equal value; a copied key the document
\* lacks is absent after the hook's merge, and after the script's merge it is
\* as it was in the manifest before the merge.
C10_CopiedKeys ==
    Merged =>
        \A k \in CopiedKeys :
            LET merged_default == SectionOf(pipeline, KDefault)
                old_default == SectionOf(before, KDefault)
            IN  IF Has(config.default_config, k)
                THEN /\ Has(merged_default, k)
                     /\ Get(merged_default, k) = Get(config.default_config, k)
                ELSE IF last.merger = "hook"
                THEN ~Has(merged_default, k)
                ELSE /\ Has(merged_default, k) <=> Has(old_default, k)
                     /\ Has(old_default, k) => Get(merged_default, k) = Get(old_default, k)

\* the script has merged a document without image into a manifest whose default
\* section had an image, and the image is still there
C10_Witness ==
    /\ last = [merger |-> "script", returned |-> TRUE]
    /\ Has(SectionOf(before, KDefault), "image")
    /\ ~Has(config.default_config, "image")
    /\ Has(SectionOf(pipeline, KDefault), "image")

(* ------------------------------------------------------------------ *)
(* Order of the manifest                                              *)
(* ------------------------------------------------------------------ *)

\* the keys of the job entries of a manifest, in the order of the manifest
JobKeysOf(pl) == SelectSeq(pl.keys, LAMBDA k : k \notin {KStages, KVariables, KDefault})

\* C11: after either merger has run, the keys of the manifest are stages,
\* variables, default and then the job entries, in the order the job entries
\* had before the merge.
C11_CanonicalOrder ==
    Merged => pipeline.keys = <<KStages, KVariables, KDefault>> \o JobKeysOf(before)

\* C12: in a generated manifest the job entries stand in the order their
\* easyconfigs were processed in: of two entries, the one that comes first
\* builds the module whose easyconfig the builder took first.
C12_ProcessingOrder ==
    pc = "generated" =>
        LET keys == JobKeysOf(pipeline)
            module(i) == Get(pipeline, keys[i]).EB_MODULE_NAME
        IN  \A i, j \in 1..Len(keys) :
                i < j => Min(Positions(module(i))) < Min(Positions(module(j)))

(* ------------------------------------------------------------------ *)
(* How pre_build_and_install_loop_hook ends                           *)
(* ------------------------------------------------------------------ *)

\* C13: once the hook has written a manifest it has been left by SystemExit
\* with status 0; it has not returned to its caller and has not raised an error.
C13_ExitsAfterManifest ==
    pipeline # EmptyDict => exit_status = "SystemExit(0)"

\* the hook has written a manifest merged with an external document, and has
\* been left by SystemExit(0)
C13_Witness ==
    /\ pc = "generated"
    /\ last = [merger |-> "hook", returned |-> TRUE]
    /\ pipeline # EmptyDict
    /\ exit_status = "SystemExit(0)"

\* C14: when processing ends with no job, the generator writes no manifest and
\* the hook is not left by an error: the run ends as after a generation.
C14_NoJobsNoManifest ==
    (pc # "processing" /\ PIPELINE_JOBS.keys = <<>>) =>
        /\ pc = "nojobs"
        /\ pipeline = EmptyDict
        /\ exit_status = "SystemExit(0)"

\* two easyconfigs were processed, none gave a job, and the generator has run
C14_Witness ==
    /\ pc = "nojobs"
    /\ Len(easyconfigs) = 2
    /\ PIPELINE_JOBS = EmptyDict
    /\ pipeline = EmptyDict

(* ------------------------------------------------------------------ *)
(* Failures to determine a module name                                *)
(* ------------------------------------------------------------------ *)

\* C15: a step of the loop on an easyconfig whose own module name cannot be
\* determined adds no job and leaves every job of the job set as it was (same
\* keys in the same order, same records, same dependency lists), and the loop
\* goes on.
C15_SkippedSpecKeepsJobs ==
    [][(/\ Len(easyconfigs') = Len(easyconfigs) + 1
        /\ ~easyconfigs'[Len(easyconfigs')].resolvable)
       => /\ PIPELINE_JOBS' = PIPELINE_JOBS
          /\ JOB_DEPENDENCIES' = JOB_DEPENDENCIES
          /\ module_to_job' = module_to_job
          /\ pc' = "processing"]_vars

\* a job, then an easyconfig that was skipped, then a second job that depends
\* on the first
C15_Witness ==
    /\ Len(easyconfigs) = 3
    /\ easyconfigs[1].resolvable
    /\ ~easyconfigs[2].resolvable
    /\ PIPELINE_JOBS.keys = <<ModA, ModC>>
    /\ Get(JOB_DEPENDENCIES, ModC) = <<ModA>>

\* the input without the dependencies whose module name cannot be determined
WithoutFailingDeps(ecs) ==
    [i \in 1..Len(ecs) |->
        [ecs[i] EXCEPT !.all_dependencies = SelectSeq(@, LAMBDA d : d.resolvable)]]

\* C16: a dependency whose module name cannot be determined is dropped alone:
\* every easyconfig whose own name resolves has its job, and the job set and
\* all dependency lists are those the same input gives when the failing
\* dependencies are not listed at all.
C16_FailingDependencyDropped ==
    /\ \A i \in 1..Len(easyconfigs) :
          easyconfigs[i].resolvable => det_full_module_name(easyconfigs[i]) \in JobKeys
    /\ LET clean == _process_easyconfigs_for_jobs(WithoutFailingDeps(easyconfigs))
       IN  /\ PIPELINE_JOBS = clean.PIPELINE_JOBS
           /\ JOB_DEPENDENCIES = clean.JOB_DEPENDENCIES

\* a job whose easyconfig lists a dependency that does not resolve and one
\* that an earlier job builds
C16_Witness ==
    \E m \in JobKeys :
        /\ \E d \in Range(easyconfigs[RecordedAt(m)].all_dependencies) :
              ~d.resolvable /\ ~d.external_module
        /\ Get(JOB_DEPENDENCIES, m) # <<>>
        /\ Get(PIPELINE_JOBS, m).job_dependencies = Get(JOB_DEPENDENCIES, m)

(* ------------------------------------------------------------------ *)
(* The two dependency lists of a job                                  *)
(* ------------------------------------------------------------------ *)

\* a is b with some elements left out
RECURSIVE IsSubSeq(_, _)
IsSubSeq(a, b) ==
    IF a = <<>> THEN TRUE
    ELSE IF b = <<>> THEN FALSE
    ELSE IF Head(a) = Head(b) THEN IsSubSeq(Tail(a), Tail(b))
    ELSE IsSubSeq(a, Tail(b))

\* module names of the dependencies of ec that are not external and resolve,
\* in the order of ec.all_dependencies
ResolvableDepNames(ec) ==
    LET kept == SelectSeq(ec.all_dependencies,
                          LAMBDA d : ~d.external_module /\ d.resolvable)
    IN  [i \in 1..Len(kept) |-> det_full_module_name(kept[i])]

\* C17: the 'dependencies' list of every job names every dependency of its
\* easyconfig that is not external and resolves, in the order of the
\* easyconfig, whether a job builds it or not; both records of the pipeline
\* dependencies are that list with some names left out.
C17_AllDependenciesListed ==
    \A m \in JobKeys :
        LET info == Get(PIPELINE_JOBS, m)
        IN  /\ info.dependencies = ResolvableDepNames(easyconfigs[RecordedAt(m)])
            /\ IsSubSeq(info.job_dependencies, info.dependencies)
            /\ IsSubSeq(Get(JOB_DEPENDENCIES, m), info.dependencies)

\* a job with two dependencies listed, of which only the second is built by a job
C17_Witness ==
    \E m \in JobKeys :
        LET info == Get(PIPELINE_JOBS, m)
        IN  /\ Len(info.dependencies) = 2
            /\ info.dependencies[1] \notin JobKeys
            /\ info.job_dependencies = <<info.dependencies[2]>>

(* ------------------------------------------------------------------ *)
(* Sanitized job names (SpecSanitize)                                 *)
(* ------------------------------------------------------------------ *)

\* s with every character c replaced by map[c]
RECURSIVE Charwise(_, _)
Charwise(s, map) ==
    IF s = <<>> THEN <<>> ELSE map[Head(s)] \o Charwise(Tail(s), map)

JobMarker == <<"j","o","b","-">>
UnknownJob == <<"u","n","k","n","o","w","n","-","j","o","b">>

\* ret is body, or body behind the marker, or the placeholder for an empty body
IsBodyOf(ret, body) ==
    \/ ret = body /\ body # <<>>
    \/ ret = JobMarker \o body /\ body # <<>>
    \/ ret = UnknownJob /\ body = <<>>

\* the replacement of one character as the claim has it
HyphenForParens ==
    [c \in NameChars |->
        IF c \in {"/", ":", " ", "(", ")"} THEN <<"-">>
        ELSE IF c = "+" THEN <<"p","l","u","s">>
        ELSE <<c>>]

\* the replacement of one character with the parentheses removed
ParensRemoved ==
    [c \in NameChars |->
        IF c \in {"/", ":", " "} THEN <<"-">>
        ELSE IF c = "+" THEN <<"p","l","u","s">>
        ELSE IF c \in {"(", ")"} THEN <<>>
        ELSE <<c>>]

C19_ValidFirstCharacter ==
    pc = "sanitized" =>
        LET body == Charwise(sanitize_arg, ParensRemoved)
        IN  /\ sanitize_ret # <<>>
            /\ IsAlpha(sanitize_ret[1]) \/ sanitize_ret[1] = "_"
            /\ sanitize_ret =
                 IF body = <<>> THEN UnknownJob
                 ELSE IF IsAlpha(body[1]) \/ body[1] = "_" THEN body
                 ELSE JobMarker \o body

\* "1/a" has been sanitized to "job-1-a"
C19_Witness ==
    /\ pc = "sanitized"
    /\ sanitize_arg = <<"1", "/", "a">>
    /\ sanitize_ret = <<"j", "o", "b", "-", "1", "-", "a">>

(* ------------------------------------------------------------------ *)
(* Stages of the leveled policy                                       *)
(* ------------------------------------------------------------------ *)

\* gitlab_hook: job_stages[module_name] of the i-th job of PIPELINE_JOBS
StageOfJob(i) == StageName(Get(PIPELINE_JOBS, PIPELINE_JOBS.keys[i]))

\* the first job of PIPELINE_JOBS that has stage st
FirstJobInStage(st) == Min({i \in 1..Len(PIPELINE_JOBS.keys) : StageOfJob(i) = st})

C21_SingleBuildStage ==
    (pc = "generated" /\ policy = "flat") =>
        /\ Get(pipeline, KStages) = << <<"build">> >>
        /\ \A k \in ManifestJobs : Get(pipeline, k).stage = <<"build">>

\* a flat manifest with two job entries, one of which needs another
C21_Witness ==
    /\ pc = "generated"
    /\ policy = "flat"
    /\ Cardinality(ManifestJobs) = 2
    /\ \E k \in ManifestJobs : Get(pipeline, k).needs # <<>>

(* ------------------------------------------------------------------ *)
(* Needs lists of a manifest                                          *)
(* ------------------------------------------------------------------ *)

\* C25: in a generated manifest every name of a needs list is the key of a job
\* entry of the same manifest and is not the key of the entry that lists it.
C25_NeedsResolveToOthers ==
    pc = "generated" =>
        \A k \in ManifestJobs :
            \A n \in Range(Get(pipeline, k).needs) :
                n \in ManifestJobs /\ n # k

(* ------------------------------------------------------------------ *)
(* Exit status and manifest                                           *)
(* ------------------------------------------------------------------ *)

\* C27: the hook is left by SystemExit(0) only when a manifest has been written.
C27_ExitZeroOnlyWithManifest ==
    exit_status = "SystemExit(0)" => pipeline # EmptyDict

(* ------------------------------------------------------------------ *)
(* Cycles                                                             *)
(* ------------------------------------------------------------------ *)

\* the nodes reached from the set S in at most n further steps along succ
RECURSIVE ReachIn(_, _, _)
ReachIn(succ, S, n) ==
    IF n = 0 THEN S
    ELSE ReachIn(succ, S \cup UNION {succ[x] : x \in S}, n - 1)

\* no node of the graph (nodes, succ) reaches itself along one edge or more
Acyclic(nodes, succ) ==
    \A m \in nodes : m \notin ReachIn(succ, succ[m], Cardinality(nodes))

\* the graph of JOB_DEPENDENCIES, restricted to the jobs of the job set
DependencyEdges == [m \in JobKeys |-> Range(Get(JOB_DEPENDENCIES, m)) \cap JobKeys]

\* the graph of the needs lists of a manifest
NeedsEdges == [k \in ManifestJobs |-> Range(Get(pipeline, k).needs) \cap ManifestJobs]

\* C24: for every input sequence, with repeated identities and with mutually
\* referential dependencies too, the graph of JOB_DEPENDENCIES is acyclic, and
\* so is the graph of the needs lists of a generated manifest.
C24_Acyclic ==
    /\ Acyclic(JobKeys, DependencyEdges)
    /\ pc = "generated" => Acyclic(ManifestJobs, NeedsEdges)

(* ------------------------------------------------------------------ *)
(* Levels computed by _calculate_job_stages                           *)
(* ------------------------------------------------------------------ *)

\* the level _calculate_job_stages returned for job m
LevelOf(m) == Get(stages_by_job, m)

\* level 0 without pipeline dependencies, 1 + the maximum of their levels otherwise
LevelByDepth(m) ==
    IF DependencyEdges[m] = {} THEN LevelOf(m) = 0
    ELSE LevelOf(m) = 1 + Max({LevelOf(d) : d \in DependencyEdges[m]})

C30_TerminatesWithAllLevels ==
    <>(pc = "staged" /\ Range(stages_by_job.keys) = JobKeys)

\* C30 witness: the call has returned on a job graph with a cycle of two jobs
C30_Witness ==
    /\ pc = "staged"
    /\ Range(stages_by_job.keys) = JobKeys
    /\ \E m, d \in JobKeys : m # d /\ d \in DependencyEdges[m] /\ m \in DependencyEdges[d]

(* ------------------------------------------------------------------ *)
(* The command line of a job                                          *)
(* ------------------------------------------------------------------ *)

\* the words of a command: its parts between blanks
RECURSIVE Words(_)
Words(s) ==
    IF s = <<>> THEN <<>>
    ELSE IF Head(s) = " " THEN Words(Tail(s))
    ELSE LET n == Min({k \in 1..(Len(s) + 1) : k = Len(s) + 1 \/ s[k] = " "})
         IN  <<SubSeq(s, 1, n - 1)>> \o Words(Drop(s, n - 1))

\* arg is the option opt, given alone or with '=' and a value
IsOption(arg, opt) == arg = opt \/ StartsWith(arg, opt \o <<"=">>)

\* the arguments from position i on that are passed on as stated: all but the
\* options --hooks and --job, the values given separately after them, and the
\* arguments that end in '.eb'
RECURSIVE PassedOn(_, _)
PassedOn(av, i) ==
    IF i > Len(av) THEN <<>>
    ELSE LET arg == av[i]
             option == IsOption(arg, <<"-","-","h","o","o","k","s">>) \/ IsOption(arg, <<"-","-","j","o","b">>)
             value_follows == /\ option
                              /\ "=" \notin Range(arg)
                              /\ i + 1 <= Len(av)
                              /\ ~StartsWith(av[i + 1], <<"-">>)
         IN  (IF ~option /\ ~EndsWith(arg, <<".","e","b">>) THEN <<arg>> ELSE <<>>)
             \o PassedOn(av, IF value_follows THEN i + 2 ELSE i + 1)

\* C28: for every argv the command is 'eb', then every argument after the
\* program name in its order except --hooks and --job with their values and
\* the arguments ending in '.eb', then '--dry-run' exactly when DRYRUN is set
\* true, then the basename of the easyconfig path of the job.
C28_CommandLine ==
    pc = "commanded" =>
        Words(eb_command) =
            <<<<"e","b">>>> \o PassedOn(argv, 2)
                \o (IF DryRun(environ) THEN <<<<"-","-","d","r","y","-","r","u","n">>>> ELSE <<>>)
                \o <<Basename(easyconfig_path)>>

(* ------------------------------------------------------------------ *)
(* Hook events                                                        *)
(* ------------------------------------------------------------------ *)

\* the records the builder was handed by the last pre_build_and_install_loop_hook
Processed == IF READY_ECS # <<>> THEN READY_ECS ELSE hook_call.arg

\* module names of the records of a list whose module name resolves
NamesOf(recs) ==
    {det_full_module_name(recs[k].ec) : k \in {n \in 1..Len(recs) : recs[n].ec.resolvable}}

\* C23: every record handed to the builder that carries an easyconfig object
\* whose module name resolves has a job under that module name, in each of the
\* three formats; n standard dicts with distinct module names give n jobs.
C23_EveryFormatGivesJob ==
    pc = "exited" =>
        /\ NamesOf(Processed) \subseteq JobKeys
        /\ Cardinality(JobKeys) = Cardinality(NamesOf(Processed))

\* what post_ready_hook has collected since start_hook last began a run
CollectedThisRun == SubSeq(READY_ECS, ready_at_start + 1, Len(READY_ECS))

\* C26: the jobs of the manifest come from specs collected during the run: from
\* what post_ready_hook collected after the last start_hook, or from the
\* argument of pre_build_and_install_loop_hook; what was collected before that
\* start_hook gives no job.
C26_OnlySpecsOfThisRun ==
    pc = "exited" =>
        JobKeys \subseteq NamesOf(CollectedThisRun) \cup NamesOf(hook_call.arg)

\* C29: in gitlab_hook, while generation is not enabled, a call of any hook
\* leaves READY_ECS, PARSED_ECS, the job set and the manifest as they were and
\* returns to its caller, the run is not ended; parse_hook returns its argument.
C29_DisabledHooksDoNothing ==
    [][(hook_module = "gitlab_hook" /\ ~gitlab_ci_generate(environ, argv)) =>
          /\ UNCHANGED <<READY_ECS, PARSED_ECS, PIPELINE_JOBS, JOB_DEPENDENCIES,
                         pipeline, policy>>
          /\ pc' = "hooks"
          /\ exit_status' = "running"
          /\ hook_call'.hook = "parse_hook" =>
                 hook_call'.returned = hook_call'.arg /\ Len(hook_call'.arg) = 1]_vars

\* C29 witness: gitlab_hook with GITLAB_CI_GENERATE set to 'no' and no option
\* on the command line; parse_hook was called, then
\* pre_build_and_install_loop_hook has returned
C29_Witness ==
    /\ hook_module = "gitlab_hook"
    /\ Has(environ, GITLAB_CI_GENERATE)
    /\ ~gitlab_ci_generate(environ, argv)
    /\ hook_call.hook = "pre_build_and_install_loop_hook"
    /\ PARSED_ECS = <<>>
    /\ pc = "hooks"
    /\ exit_status = "running"


====
